---- MODULE Spec2Model ----
(***************************************************************************)
(* State-machine model of src/pages/blog/CategoryList.tsx: the React       *)
(* component CategoryList (category list view with pagination) and the     *)
(* React component BlogHeader (site header with mobile menu and search).   *)
(*                                                                         *)
(* One action is one event-loop task: a router change, a click, a key      *)
(* stroke or the continuation of an awaited request, together with the     *)
(* re-render and the effect run it causes.                                  *)
(***************************************************************************)
EXTENDS Integers, Sequences, FiniteSets, TLC

VARIABLES
  mounted,      \* CategoryList has been mounted (its mount effect has run)
  categoryId,   \* router.query.categoryId, None when absent
  blogs,        \* useState<Blog[]>([])
  category,     \* useState<Category | null>(null)
  currentPage,  \* useState(1)
  totalPages,   \* useState(0)
  isLoading,    \* the container's flag: last value passed to setIsLoading
  pending,      \* requests of CategoryList awaiting their response, in issue order
  out,          \* what the last CategoryList step did (calls it made)
  hmounted,     \* BlogHeader has been mounted (its mount effect has run)
  categories,   \* useState<Category[]>([])
  menuOpen,     \* useState(false)
  searchQuery,  \* useState(''), as a sequence of UTF-16 code units
  catsReq,      \* the getCategories() request: "idle", "pending", "done", "failed"
  hout          \* what the last BlogHeader step did

listVars == <<mounted, categoryId, blogs, category, currentPage, totalPages,
              isLoading, pending, out>>
headerVars == <<hmounted, categories, menuOpen, searchQuery, catsReq, hout>>
vars == <<listVars, headerVars>>

\* ---------------------------------------------------------------- bounds
\* Most requests of CategoryList that may be awaiting a response at once.
MaxInFlight == 3
\* Longest text typed into the search box.
MaxQueryLen == 2

\* ------------------------------------------------------- program constants
blogsPerPage == 10

\* ------------------------------------------------------------ environment
None == "undefined"
Null == [isNull |-> TRUE]
CategoryIds == {"c1", "c2", "c3"}

\* The content API's data: how many posts each category holds.
ServerTotalCount(c) ==
  CASE c = "c1" -> 25
    [] c = "c2" -> 11
    [] OTHER    -> 0

\* The content API's category metadata.
ServerCategory(c) ==
  CASE c = "c1" -> [id |-> "c1", name |-> "Sports", explanation |-> "", image |-> Null]
    [] c = "c2" -> [id |-> "c2", name |-> "Music", explanation |-> "About music",
                    image |-> Null]
    [] OTHER    -> [id |-> c, name |-> "News", explanation |-> "",
                    image |-> [url |-> "/news.png"]]

Min(a, b) == IF a < b THEN a ELSE b
Max(a, b) == IF a > b THEN a ELSE b

\* getBlogsByCategory(categoryId, page, limit): the posts of that page and the
\* category's total count.
getBlogsByCategory(c, page, limit) ==
  LET total  == ServerTotalCount(c)
      offset == (page - 1) * limit
      n      == Max(0, Min(limit, total - offset))
  IN [contents   |-> [i \in 1..n |-> [id |-> offset + i, category |-> c]],
      totalCount |-> total]

\* getCategory(categoryId)
getCategory(c) == ServerCategory(c)

\* ------------------------------------------------------------ CategoryList
NoRequest == [kind |-> "none", categoryId |-> None, page |-> 0, limit |-> 0]

NoOut == [op |-> "init", page |-> 0, req |-> NoRequest, issued |-> <<>>, signals |-> <<>>,
          totalCount |-> 0]

\* Math.ceil(totalCount / blogsPerPage)
MathCeilDiv(a, b) == IF a % b = 0 THEN a \div b ELSE (a \div b) + 1

RemoveAt(s, i) == [j \in 1..(Len(s) - 1) |-> IF j < i THEN s[j] ELSE s[j + 1]]

\* fetchBlogs(page) up to its await: the request it issues, if any.
fetchBlogsIssued(cid, page) ==
  IF cid = None THEN <<>>
  ELSE <<[kind |-> "blogs", categoryId |-> cid, page |-> page, limit |-> blogsPerPage]>>

\* fetchBlogs(page) up to its await: the values it passes to setIsLoading.
fetchBlogsSignals(cid) == IF cid = None THEN <<>> ELSE <<TRUE>>

\* Variant: fetchCategory without its `if (!categoryId) return`.
fetchCategoryIssued_unguarded(cid) ==
  <<[kind |-> "category", categoryId |-> cid, page |-> 0, limit |-> 0]>>

\* fetchCategory() up to its await: the request it issues, if any.
fetchCategoryIssued(cid) ==
  IF cid = None THEN <<>>
  ELSE <<[kind |-> "category", categoryId |-> cid, page |-> 0, limit |-> 0]>>

\* The container's flag after the calls `signals` of setIsLoading.
AfterSignals(flag, signals) ==
  IF signals = <<>> THEN flag ELSE signals[Len(signals)]

\* The effect body: fetchBlogs(currentPage); fetchCategory(); with the
\* categoryId and currentPage of the render that scheduled it.  op and arg
\* name the step the effect run belongs to.
RunEffect(op, arg, cid, page) ==
  LET issued  == fetchBlogsIssued(cid, page) \o fetchCategoryIssued(cid)
      signals == fetchBlogsSignals(cid)
  IN /\ Len(pending) + Len(issued) <= MaxInFlight
     /\ pending' = pending \o issued
     /\ isLoading' = AfterSignals(isLoading, signals)
     /\ out' = [op |-> op, page |-> arg, req |-> NoRequest, issued |-> issued,
                signals |-> signals, totalCount |-> 0]

\* First render and the effect run after it.
Mount ==
  /\ ~mounted
  /\ mounted' = TRUE
  /\ RunEffect("mount", 0, categoryId, currentPage)
  /\ UNCHANGED <<categoryId, blogs, category, currentPage, totalPages>>
  /\ UNCHANGED headerVars

\* The router delivers another categoryId: re-render, the dependency
\* [categoryId] differs, the effect runs again.
RouteChange(c) ==
  /\ mounted
  /\ c # categoryId
  /\ categoryId' = c
  /\ RunEffect("route", 0, c, currentPage)
  /\ UNCHANGED <<mounted, blogs, category, currentPage, totalPages>>
  /\ UNCHANGED headerVars

\* The page buttons rendered: none unless totalPages > 1.
PageButtons ==
  IF totalPages > 1
  THEN [i \in 1..totalPages |-> [label |-> i, active |-> (currentPage = i)]]
  ELSE <<>>

\* Variant: the effect runs after every render (no dependency array).
EffectRunsAfterPage_always(page) == TRUE

\* Does the effect run after setCurrentPage(page)?  Only when the dependency
\* [currentPage] differs from the previous render's.
EffectRunsAfterPage(page) == page # currentPage

\* handlePageChange(page), from the onClick of page button `page`.
handlePageChange(page) ==
  /\ mounted
  /\ page \in 1..Len(PageButtons)
  /\ currentPage' = page
  /\ IF EffectRunsAfterPage(page)
     THEN RunEffect("page", page, categoryId, page)
     ELSE /\ out' = [op |-> "page", page |-> page, req |-> NoRequest, issued |-> <<>>,
                     signals |-> <<>>, totalCount |-> 0]
          /\ UNCHANGED <<pending, isLoading>>
  /\ UNCHANGED <<mounted, categoryId, blogs, category, totalPages>>
  /\ UNCHANGED headerVars

\* Variant: a response is dropped unless it answers the current categoryId
\* and currentPage.
Applies_current(r) ==
  /\ r.categoryId = categoryId
  /\ r.kind = "blogs" => r.page = currentPage

\* Is the response of request r applied to the state?  (No generation check,
\* no cancellation: always.)
Applies(r) == TRUE

\* Variant: setIsLoading(false) in a finally block.
fetchBlogsRejectSignals_finally == <<FALSE>>

\* Values fetchBlogs passes to setIsLoading after a rejected await.
fetchBlogsRejectSignals == <<>>

\* fetchBlogs after its await resolved: setBlogs, setTotalPages, setIsLoading(false).
ResolveBlogs(i) ==
  /\ i \in 1..Len(pending)
  /\ pending[i].kind = "blogs"
  /\ LET r    == pending[i]
         data == getBlogsByCategory(r.categoryId, r.page, r.limit)
     IN /\ pending' = RemoveAt(pending, i)
        /\ IF Applies(r)
           THEN /\ blogs' = data.contents
                /\ totalPages' = MathCeilDiv(data.totalCount, blogsPerPage)
                /\ isLoading' = FALSE
                /\ out' = [op |-> "blogsResolved", page |-> 0, req |-> r, issued |-> <<>>,
                           signals |-> <<FALSE>>, totalCount |-> data.totalCount]
           ELSE /\ out' = [op |-> "blogsResolved", page |-> 0, req |-> r, issued |-> <<>>,
                           signals |-> <<>>, totalCount |-> data.totalCount]
                /\ UNCHANGED <<blogs, totalPages, isLoading>>
  /\ UNCHANGED <<mounted, categoryId, category, currentPage>>
  /\ UNCHANGED headerVars

\* fetchBlogs after its await rejected: the async function ends there.
RejectBlogs(i) ==
  /\ i \in 1..Len(pending)
  /\ pending[i].kind = "blogs"
  /\ pending' = RemoveAt(pending, i)
  /\ isLoading' = AfterSignals(isLoading, fetchBlogsRejectSignals)
  /\ out' = [op |-> "blogsRejected", page |-> 0, req |-> pending[i], issued |-> <<>>,
             signals |-> fetchBlogsRejectSignals, totalCount |-> 0]
  /\ UNCHANGED <<mounted, categoryId, blogs, category, currentPage, totalPages>>
  /\ UNCHANGED headerVars

\* The category state after fetchCategory's await rejected.
categoryAfterReject(cat) == cat

\* fetchCategory after its await resolved: setCategory(data).
ResolveCategory(i) ==
  /\ i \in 1..Len(pending)
  /\ pending[i].kind = "category"
  /\ pending' = RemoveAt(pending, i)
  /\ category' = IF Applies(pending[i]) THEN getCategory(pending[i].categoryId)
                 ELSE category
  /\ out' = [op |-> "categoryResolved", page |-> 0, req |-> pending[i], issued |-> <<>>,
             signals |-> <<>>, totalCount |-> 0]
  /\ UNCHANGED <<mounted, categoryId, blogs, currentPage, totalPages, isLoading>>
  /\ UNCHANGED headerVars

\* fetchCategory after its await rejected: the async function ends there.
RejectCategory(i) ==
  /\ i \in 1..Len(pending)
  /\ pending[i].kind = "category"
  /\ pending' = RemoveAt(pending, i)
  /\ category' = categoryAfterReject(category)
  /\ out' = [op |-> "categoryRejected", page |-> 0, req |-> pending[i], issued |-> <<>>,
             signals |-> <<>>, totalCount |-> 0]
  /\ UNCHANGED <<mounted, categoryId, blogs, currentPage, totalPages, isLoading>>
  /\ UNCHANGED headerVars

\* ---- what CategoryList renders (the Japanese literals of the source are
\* written in ASCII transliteration: strings of the module are ASCII)
Title ==
  (IF category # Null THEN category.name \o " no kategori" ELSE "kategori")
    \o " | iU gakuyukai"
Keywords == "gakuyukai, " \o (IF category # Null THEN category.name ELSE "")
Description == IF category # Null THEN category.explanation ELSE ""
NoResultsShown == Len(blogs) = 0
NoResultsQuery == IF category # Null THEN category.name ELSE "kono kategori"
CategoryInfoShown ==
  /\ category # Null
  /\ (category.explanation # "" \/ category.image # Null)

\* -------------------------------------------------------------- BlogHeader
\* Characters a search text is made of, and those String.prototype.trim strips.
\* A text is a sequence of UTF-16 code units.  Characters typed in the model:
\* space, form feed, U+3000 (ideographic space) and "m".
Chars == {32, 12, 12288, 109}

\* What String.prototype.trim strips: the ECMAScript WhiteSpace code points
\* (TAB, VT, FF, ZWNBSP and the Unicode category Zs) and the LineTerminator
\* code points (LF, CR, LS, PS).
IsWhitespace(ch) ==
  ch \in {9, 11, 12, 32, 160, 5760, 8239, 8287, 12288, 65279}
          \cup (8192..8202) \cup {10, 13, 8232, 8233}

RECURSIVE SeqsUpTo(_)
SeqsUpTo(n) ==
  IF n = 0 THEN {<<>>}
  ELSE LET shorter == SeqsUpTo(n - 1)
       IN shorter \cup {Append(t, ch) : t \in shorter, ch \in Chars}

\* The texts e.target.value may hold.
SearchTexts == SeqsUpTo(MaxQueryLen)

RECURSIVE TrimStart(_)
TrimStart(s) ==
  IF s = <<>> THEN s
  ELSE IF IsWhitespace(Head(s)) THEN TrimStart(Tail(s)) ELSE s

RECURSIVE TrimEnd(_)
TrimEnd(s) ==
  IF s = <<>> THEN s
  ELSE IF IsWhitespace(s[Len(s)]) THEN TrimEnd(SubSeq(s, 1, Len(s) - 1)) ELSE s

\* searchQuery.trim()
Trim(s) == TrimEnd(TrimStart(s))

\* The code units of the literal part "/blog/search?query=".
SearchPrefix ==
  <<47, 98, 108, 111, 103, 47, 115, 101, 97, 114, 99, 104, 63, 113, 117, 101, 114, 121, 61>>

\* Variant: the trimmed text is appended.
SearchParam_trimmed(q) == Trim(q)

\* The text handleSearch appends after "query=".
SearchParam(q) == q

\* `/blog/search?query=${searchQuery}`
SearchUrl(q) == SearchPrefix \o SearchParam(q)

\* handleSearch(e): the locations it passes to router.push.
handleSearch(q) == IF Trim(q) # <<>> THEN <<SearchUrl(q)>> ELSE <<>>

\* `/blog/category/${category.id}`, the href of a category link.
CategoryUrl(cat) == "/blog/category/" \o cat.id

\* The element tree of the rendered header: each element's parent.
Parent(el) ==
  CASE el = "container"     -> "header"
    [] el = "desktopForm"   -> "container"
    [] el = "desktopInput"  -> "desktopForm"
    [] el = "desktopSubmit" -> "desktopForm"
    [] el = "hamburger"     -> "container"
    [] el = "overlay"       -> "header"
    [] el = "inner"         -> "overlay"
    [] el = "closeButton"   -> "inner"
    [] el = "mobileForm"    -> "inner"
    [] el = "mobileInput"   -> "mobileForm"
    [] el = "mobileSubmit"  -> "mobileForm"
    [] el = "list"          -> "inner"
    [] el = "categoryLink"  -> "list"
    [] OTHER                -> "root"

\* Variant: the inner panel has no onClick stopping propagation.
OnClick_noStop(el) ==
  CASE el = "hamburger"    -> "toggleMenu"
    [] el = "overlay"      -> "toggleMenu"
    [] el = "closeButton"  -> "toggleMenu"
    [] el = "categoryLink" -> "toggleMenu"
    [] OTHER               -> "none"

\* The onClick handler each element is given.
OnClick(el) ==
  CASE el = "hamburger"    -> "toggleMenu"
    [] el = "overlay"      -> "toggleMenu"
    [] el = "inner"        -> "stopPropagation"
    [] el = "closeButton"  -> "toggleMenu"
    [] el = "categoryLink" -> "toggleMenu"
    [] OTHER               -> "none"

\* The elements a click on el bubbles through, el first.
RECURSIVE ClickPath(_)
ClickPath(el) == IF el = "root" THEN <<>> ELSE <<el>> \o ClickPath(Parent(el))

\* How many times toggleMenu is called as a click bubbles along path.
RECURSIVE ToggleCalls(_)
ToggleCalls(path) ==
  IF path = <<>> THEN 0
  ELSE LET h == OnClick(Head(path))
       IN IF h = "stopPropagation" THEN 0
          ELSE (IF h = "toggleMenu" THEN 1 ELSE 0) + ToggleCalls(Tail(path))

\* toggleMenu: setMenuOpen((prevState) => !prevState)
toggleMenu(prevState) == ~prevState

\* menuOpen after n queued toggleMenu updates.
RECURSIVE AfterToggles(_, _)
AfterToggles(m, n) == IF n = 0 THEN m ELSE AfterToggles(toggleMenu(m), n - 1)

\* menuOpen after a click on el.
AfterClick(m, el) == AfterToggles(m, ToggleCalls(ClickPath(el)))

\* The mobile overlay and all inside it are rendered only while menuOpen.
Rendered(el) == "overlay" \in {ClickPath(el)[k] : k \in 1..Len(ClickPath(el))} => menuOpen

\* listCategories(): the content API's category list.
getCategories == <<ServerCategory("c1"), ServerCategory("c2"), ServerCategory("c3")>>

\* First render and the mount effect: fetchCategories() up to its await.
HeaderMount ==
  /\ ~hmounted
  /\ hmounted' = TRUE
  /\ catsReq' = "pending"
  /\ hout' = [op |-> "mount", target |-> "header", pushed |-> <<>>]
  /\ UNCHANGED <<categories, menuOpen, searchQuery>>
  /\ UNCHANGED listVars

\* fetchCategories after its await resolved: setCategories(data).
ResolveCategories ==
  /\ catsReq = "pending"
  /\ catsReq' = "done"
  /\ categories' = getCategories
  /\ hout' = [op |-> "categoriesResolved", target |-> "header", pushed |-> <<>>]
  /\ UNCHANGED <<hmounted, menuOpen, searchQuery>>
  /\ UNCHANGED listVars

\* fetchCategories after its await rejected.
RejectCategories ==
  /\ catsReq = "pending"
  /\ catsReq' = "failed"
  /\ hout' = [op |-> "categoriesRejected", target |-> "header", pushed |-> <<>>]
  /\ UNCHANGED <<hmounted, categories, menuOpen, searchQuery>>
  /\ UNCHANGED listVars

\* A click on the hamburger, the overlay background, the inner panel or the
\* close button.
Click(el) ==
  /\ hmounted
  /\ el \in {"hamburger", "overlay", "inner", "closeButton"}
  /\ Rendered(el)
  /\ menuOpen' = AfterClick(menuOpen, el)
  /\ hout' = [op |-> "click", target |-> el, pushed |-> <<>>]
  /\ UNCHANGED <<hmounted, categories, searchQuery, catsReq>>
  /\ UNCHANGED listVars

\* A click on the k-th category link: its onClick, then the Link's navigation.
ClickCategoryLink(k) ==
  /\ hmounted
  /\ Rendered("categoryLink")
  /\ k \in 1..Len(categories)
  /\ menuOpen' = AfterClick(menuOpen, "categoryLink")
  /\ hout' = [op |-> "click", target |-> "categoryLink",
              pushed |-> <<CategoryUrl(categories[k])>>]
  /\ UNCHANGED <<hmounted, categories, searchQuery, catsReq>>
  /\ UNCHANGED listVars

\* onChange of the input of a form: setSearchQuery(e.target.value).
ChangeSearch(input, text) ==
  /\ hmounted
  /\ input \in {"desktopInput", "mobileInput"}
  /\ Rendered(input)
  /\ searchQuery' = text
  /\ hout' = [op |-> "change", target |-> input, pushed |-> <<>>]
  /\ UNCHANGED <<hmounted, categories, menuOpen, catsReq>>
  /\ UNCHANGED listVars

\* A form is submitted through its submit button (a click on it, or the click
\* the browser dispatches on it for Enter in the input): the click bubbles,
\* then onSubmit = handleSearch runs.
SubmitSearch(button) ==
  /\ hmounted
  /\ button \in {"desktopSubmit", "mobileSubmit"}
  /\ Rendered(button)
  /\ menuOpen' = AfterClick(menuOpen, button)
  /\ hout' = [op |-> "submit", target |-> button, pushed |-> handleSearch(searchQuery)]
  /\ UNCHANGED <<hmounted, categories, searchQuery, catsReq>>
  /\ UNCHANGED listVars

\* The value each search input shows.
InputValue(input) == searchQuery

HeaderInit ==
  /\ hmounted = FALSE
  /\ categories = <<>>
  /\ menuOpen = FALSE
  /\ searchQuery = <<>>
  /\ catsReq = "idle"
  /\ hout = [op |-> "init", target |-> "header", pushed |-> <<>>]

ListInit ==
  /\ mounted = FALSE
  /\ categoryId \in CategoryIds \cup {None}
  /\ blogs = <<>>
  /\ category = Null
  /\ currentPage = 1
  /\ totalPages = 0
  /\ isLoading = FALSE
  /\ pending = <<>>
  /\ out = NoOut

Init == ListInit /\ HeaderInit

Next ==
  \/ Mount
  \/ \E c \in CategoryIds : RouteChange(c)
  \/ \E p \in 1..totalPages : handlePageChange(p)
  \/ \E i \in 1..Len(pending) : ResolveBlogs(i)
  \/ \E i \in 1..Len(pending) : RejectBlogs(i)
  \/ \E i \in 1..Len(pending) : ResolveCategory(i)
  \/ \E i \in 1..Len(pending) : RejectCategory(i)

Spec == Init /\ [][Next]_vars

HeaderNext ==
  \/ HeaderMount
  \/ ResolveCategories
  \/ RejectCategories
  \/ \E el \in {"hamburger", "overlay", "inner", "closeButton"} : Click(el)
  \/ \E k \in 1..Len(categories) : ClickCategoryLink(k)
  \/ \E input \in {"desktopInput", "mobileInput"}, text \in SearchTexts :
       ChangeSearch(input, text)
  \/ \E button \in {"desktopSubmit", "mobileSubmit"} : SubmitSearch(button)

HeaderSpec == Init /\ [][HeaderNext]_vars

\* ------------------------------------------------------------------ claims
IsBlogs(r) == r.kind = "blogs"
BlogsIssued(o) == SelectSeq(o.issued, IsBlogs)
PendingBlogs == SelectSeq(pending, IsBlogs)
ActiveButtons == {i \in 1..Len(PageButtons) : PageButtons[i].active}
IsPrefix(s, t) == Len(s) <= Len(t) /\ SubSeq(t, 1, Len(s)) = s

\* C1: whenever totalPages > 0, currentPage lies in 1..totalPages.
C1_CurrentPageInRange ==
  totalPages > 0 => currentPage \in 1..totalPages

\* C2 (as stated): a click on page button p, whatever the current page, sets
\* currentPage to p and issues exactly one posts request (categoryId, p, 10).
C2_EveryClickFetches ==
  out.op = "page" =>
    /\ currentPage = out.page
    /\ BlogsIssued(out) =
         <<[kind |-> "blogs", categoryId |-> categoryId, page |-> out.page, limit |-> 10]>>

\* C2 (amended): a click on page button p sets currentPage to p; it issues
\* exactly one posts request (categoryId, p, 10) when p differs from the
\* current page, and no request when p is the current page.
C2_ClickFetchesOnChange ==
  [][out'.op = "page" =>
       /\ currentPage' = out'.page
       /\ out'.page \in 1..totalPages
       /\ pending' = pending \o out'.issued
       /\ BlogsIssued(out') =
            IF out'.page # currentPage
            THEN <<[kind |-> "blogs", categoryId |-> categoryId, page |-> out'.page,
                    limit |-> 10]>>
            ELSE <<>>]_vars

C2_Witness ==
  /\ out.op = "page"
  /\ out.page = 3
  /\ currentPage = 3
  /\ Len(BlogsIssued(out)) = 1
  /\ BlogsIssued(out)[1].page = 3

\* C3: while a posts request is awaiting its response, the last value passed to
\* setIsLoading is true.
C3_LoadingWhilePending ==
  PendingBlogs # <<>> => isLoading = TRUE

\* C4: loading-end is signalled only by a resolved posts request, in the step
\* that stores its items and page count; a rejected posts request signals
\* nothing and leaves blogs, totalPages and the loading flag as they were, so
\* the flag leaves true only through a resolved posts request.
C4_LoadingEndOnlyOnSuccess ==
  [][/\ (\E k \in 1..Len(out'.signals) : out'.signals[k] = FALSE) =>
          /\ out'.op = "blogsResolved"
          /\ blogs' = getBlogsByCategory(out'.req.categoryId, out'.req.page, 10).contents
          /\ totalPages' * 10 >= out'.totalCount
          /\ totalPages' * 10 < out'.totalCount + 10
     /\ out'.op = "blogsRejected" =>
          /\ out'.signals = <<>>
          /\ UNCHANGED <<blogs, totalPages, isLoading>>
     /\ (isLoading /\ ~isLoading') => out'.op = "blogsResolved"]_vars

C4_Witness ==
  /\ out.op = "blogsRejected"
  /\ isLoading
  /\ pending = <<>>

\* C5: after a rejected category request the category state is null and the
\* title, keywords and no-results text are the generic ones.
C5_NullAfterCategoryFailure ==
  out.op = "categoryRejected" =>
    /\ category = Null
    /\ Title = "kategori | iU gakuyukai"
    /\ Keywords = "gakuyukai, "
    /\ NoResultsQuery = "kono kategori"

\* C6: after a resolved posts request totalPages is ceil(totalCount / 10); the
\* buttons are numbered 1..totalPages when totalPages > 1, with exactly one
\* active, the one numbered currentPage, and there are none when totalPages <= 1.
C6_PaginationAfterFetch ==
  out.op = "blogsResolved" =>
    /\ totalPages * 10 >= out.totalCount
    /\ (totalPages - 1) * 10 < out.totalCount \/ (totalPages = 0 /\ out.totalCount = 0)
    /\ Len(PageButtons) = (IF totalPages > 1 THEN totalPages ELSE 0)
    /\ \A i \in 1..Len(PageButtons) : PageButtons[i].label = i
    /\ totalPages > 1 => ActiveButtons = {currentPage}

\* The part of C6 that does not involve currentPage: page count and buttons.
C6_PageCountAndButtons ==
  out.op = "blogsResolved" =>
    /\ totalPages * 10 >= out.totalCount
    /\ (totalPages - 1) * 10 < out.totalCount \/ (totalPages = 0 /\ out.totalCount = 0)
    /\ Len(PageButtons) = (IF totalPages > 1 THEN totalPages ELSE 0)
    /\ \A i \in 1..Len(PageButtons) :
         /\ PageButtons[i].label = i
         /\ PageButtons[i].active <=> (i = currentPage)

\* C7: the menu starts closed; it goes from closed to open only by a click on the hamburger;
\* a click on the close button, the overlay background or a category link
\* while it is open closes it; changing or submitting the search text leaves
\* menuOpen as it was.
C7_MenuTransitions ==
  /\ ~menuOpen
  /\ [][/\ (~menuOpen /\ menuOpen') =>
             (hout'.op = "click" /\ hout'.target = "hamburger")
        /\ (menuOpen /\ hout'.op = "click"
              /\ hout'.target \in {"closeButton", "overlay", "categoryLink"}) =>
             ~menuOpen'
        /\ hout'.op \in {"change", "submit"} => menuOpen' = menuOpen]_vars

C7_Witness ==
  /\ hout.op = "click"
  /\ hout.target = "categoryLink"
  /\ hout.pushed # <<>>
  /\ ~menuOpen

\* C8: a submission from either form pushes exactly the location
\* /blog/search?query=<raw searchQuery> when searchQuery holds a character
\* that trim does not strip, and nothing otherwise; searchQuery and menuOpen stay
\* as they were, and both inputs show searchQuery.
C8_SearchSubmission ==
  [][hout'.op = "submit" =>
       /\ hout'.pushed =
            IF \E k \in 1..Len(searchQuery) : ~IsWhitespace(searchQuery[k])
            THEN <<SearchPrefix \o searchQuery>>
            ELSE <<>>
       /\ searchQuery' = searchQuery
       /\ menuOpen' = menuOpen
       /\ InputValue("desktopInput")' = searchQuery
       /\ InputValue("mobileInput")' = searchQuery]_vars

C8_Witness ==
  /\ hout.op = "submit"
  /\ hout.target = "mobileSubmit"
  /\ menuOpen
  /\ searchQuery = <<12288, 109>>
  /\ hout.pushed = <<SearchPrefix \o <<12288, 109>>>>

\* C9: no request is cancelled and no response is checked against the current
\* categoryId or page: a route or page change keeps every pending request, and
\* every resolved request is stored whatever the current categoryId and
\* currentPage are.  (The stale quiescent state is the witness.)
C9_NoCancellationNoGenerationCheck ==
  [][/\ out'.op \in {"route", "page"} => IsPrefix(pending, pending')
     /\ out'.op = "blogsResolved" =>
          /\ blogs' = getBlogsByCategory(out'.req.categoryId, out'.req.page, 10).contents
          /\ out'.signals = <<FALSE>>
     /\ out'.op = "categoryResolved" =>
          category' = getCategory(out'.req.categoryId)]_vars

C9_Witness ==
  /\ mounted
  /\ pending = <<>>
  /\ out.op = "blogsResolved"
  /\ blogs # <<>>
  /\ blogs[1].category # categoryId
  /\ category # Null
  /\ category.id = categoryId
  /\ category.id # blogs[1].category

\* C10: a posts completion leaves category and currentPage unchanged; a
\* category completion leaves blogs, totalPages, currentPage and the loading
\* flag unchanged; while categoryId is absent no request is issued and
\* setIsLoading is not called.
C10_DisjointWrites ==
  [][/\ out'.op \in {"blogsResolved", "blogsRejected"} =>
          UNCHANGED <<category, currentPage>>
     /\ out'.op \in {"categoryResolved", "categoryRejected"} =>
          /\ UNCHANGED <<blogs, totalPages, currentPage, isLoading>>
          /\ out'.signals = <<>>
     /\ categoryId' = None =>
          /\ out'.issued = <<>>
          /\ out'.signals = <<>>
          /\ pending' = <<>>
          /\ isLoading' = isLoading]_vars

C10_Witness ==
  /\ out.op = "blogsResolved"
  /\ pending = <<>>
  /\ category # Null
  /\ category.id = out.req.categoryId
  /\ blogs # <<>>
  /\ blogs[1].category = category.id
====
